---- MODULE Spec2Model ----
(***************************************************************************)
(* jj-starship: one invocation of the prompt command, as a state machine.  *)
(*                                                                         *)
(*   main -> run_prompt -> jj::collect -> find_ancestor_bookmarks (BFS)    *)
(*        -> remote-sync check -> output::format_jj -> print!              *)
(*                                                                         *)
(* The repository (commit graph, view, index) and the configuration are    *)
(* chosen by Init and never change: the program only reads them.           *)
(* Strings are sequences of one-character strings; a color code is one     *)
(* element.  A ref target is the set of commit ids it adds: {} is absent,  *)
(* a singleton is a normal target, two or more ids a conflicted target.    *)
(***************************************************************************)
EXTENDS Integers, Sequences, FiniteSets, TLC

\* ---------------------------------------------------------------- bounds
MaxCommits == 3
MaxDepth == 2
MaxRuns == 2

Commits == 1..MaxCommits
WC == 1

\* ---------------------------------------------------------------- strings
MAIN == <<"m", "a", "i", "n">>
FEAT == <<"f", "e", "a", "t">>
CAP_MAIN == <<"M", "a", "i", "n">>
\* local bookmark names, in the view's (BTreeMap) iteration order
LocalNames == <<FEAT, MAIN>>
NameSet == {LocalNames[i] : i \in 1..Len(LocalNames)}
\* remote names, in the view's iteration order
RemoteNames == <<"fork", "git", "origin", "upstream">>
RemoteSet == {RemoteNames[i] : i \in 1..Len(RemoteNames)}
\* every bookmark name a view can hold, local or remote, in iteration (byte) order
BookmarkNames == <<CAP_MAIN, FEAT, MAIN>>
TagNames == {"v1"}

Range(s) == {s[i] : i \in 1..Len(s)}

Min(a, b) == IF a <= b THEN a ELSE b

Digit(d) == <<"0", "1", "2", "3", "4", "5", "6", "7", "8", "9">>[d + 1]

RECURSIVE ToDecimal(_)
ToDecimal(n) == IF n < 10 THEN <<Digit(n)>> ELSE ToDecimal(n \div 10) \o <<Digit(n % 10)>>

RECURSIVE Join(_, _)
Join(ss, sep) ==
    IF ss = <<>> THEN <<>>
    ELSE IF Len(ss) = 1 THEN ss[1]
    ELSE ss[1] \o sep \o Join(Tail(ss), sep)

\* ---------------------------------------------------------------- targets
Absent == {}
Targets == {t \in SUBSET Commits : Cardinality(t) <= 2}
is_absent(t) == t = {}
\* as_normal: Some(id) for a resolved, present target, else None (here {})
as_normal(t) == IF Cardinality(t) = 1 THEN t ELSE {}

\* ---------------------------------------------------------------- state
VARIABLES
    parents,        \* repository: commit -> parent id list
    view,           \* repository: [local, remote, tags]
    index,          \* repository: [prefix, resolve] lookups of the wc change id
    wc_commit,      \* repository: [change_id, empty_desc, conflict] of the wc commit
    config,         \* Config
    pc,             \* position of the invocation
    command,        \* cli.command
    queue,          \* find_ancestor_bookmarks: VecDeque<(CommitId, usize)>
    visited,        \* find_ancestor_bookmarks: HashSet<CommitId>
    bookmarks_with_distances,  \* find_ancestor_bookmarks: HashMap<String, usize>
    immutable_heads,\* find_ancestor_bookmarks: HashSet<CommitId>
    ancestors,      \* value returned by find_ancestor_bookmarks
    bookmarks,      \* collect: Vec<(String, usize)>
    partial,        \* collect: fields of JjInfo computed before the bookmark search
    info,           \* value returned by collect: "none", "err" or a JjInfo
    output,         \* value returned by run_prompt: "none" or a string
    stdout,         \* what the process has printed
    exit_code,      \* "running", "SUCCESS" or "FAILURE"
    commit_loads,   \* history: commits loaded with get_commit
    bookmark_reads, \* history: commits queried with local_bookmarks_for_commit
    processed,      \* history: (commit, depth) whose bookmarks the search read
    expanded,       \* history: (commit, depth) whose parents the search enqueued
    failed,         \* history: the backend lookups that failed in this invocation
    detected,       \* history: what detect::detect returned, "none" before it ran
    run,            \* number of the invocation
    prev            \* output of the previous successful invocation, or "none"

env == <<parents, view, index, wc_commit, config>>
search == <<queue, visited, bookmarks_with_distances, immutable_heads, ancestors>>
hist == <<commit_loads, bookmark_reads, processed, expanded, failed, detected>>
vars == <<parents, view, index, wc_commit, config, pc, command, queue, visited,
          bookmarks_with_distances, immutable_heads, ancestors, bookmarks, partial,
          info, output, stdout, exit_code, commit_loads, bookmark_reads, processed,
          expanded, failed, detected, run, prev>>

\* ---------------------------------------------------------------- view reads
\* view.local_bookmarks_for_commit(id): names whose target adds id, in name order
local_bookmarks_for_commit(v, c) ==
    SelectSeq(BookmarkNames, LAMBDA n : n \in DOMAIN v.local /\ c \in v.local[n])

\* view.get_local_bookmark(name)
get_local_bookmark(v, n) == IF n \in DOMAIN v.local THEN v.local[n] ELSE Absent

\* StringMatcher::All
All == {BookmarkNames[i] : i \in 1..Len(BookmarkNames)}

\* view.remote_bookmarks_matching(name_matcher, All): (symbol, remote_ref) by remote order
RECURSIVE RemoteRefsFrom(_, _, _)
RemoteRefsFrom(v, names, i) ==
    IF i > Len(RemoteNames) THEN <<>>
    ELSE LET here == {r \in v.remote : r.remote = RemoteNames[i] /\ r.name \in names}
             hereSeq == SelectSeq(BookmarkNames, LAMBDA n : \E r \in here : r.name = n)
             refs == [k \in 1..Len(hereSeq) |->
                        CHOOSE r \in here : r.name = hereSeq[k]]
         IN  refs \o RemoteRefsFrom(v, names, i + 1)

remote_bookmarks_matching(v, names) == RemoteRefsFrom(v, names, 1)

\* ---------------------------------------------------------------- find_immutable_heads
is_trunk(r) == r.remote \in {"origin", "upstream"}
               /\ r.name \in {MAIN, <<"m", "a", "s", "t", "e", "r">>, <<"t", "r", "u", "n", "k">>}

is_untracked(v, r) == is_absent(get_local_bookmark(v, r.name))

\* mutant: the refs of the "git" remote are not skipped
RECURSIVE RemoteHeadsWithGit(_, _, _)
RemoteHeadsWithGit(v, refs, acc) ==
    IF refs = <<>> THEN acc
    ELSE LET r == Head(refs)
         IN  IF is_trunk(r) \/ is_untracked(v, r)
             THEN RemoteHeadsWithGit(v, Tail(refs), acc \cup as_normal(r.target))
             ELSE RemoteHeadsWithGit(v, Tail(refs), acc)

RECURSIVE RemoteHeads(_, _, _)
RemoteHeads(v, refs, acc) ==
    IF refs = <<>> THEN acc
    ELSE LET r == Head(refs)
         IN  IF r.remote = "git" THEN RemoteHeads(v, Tail(refs), acc)
             ELSE IF is_trunk(r) \/ is_untracked(v, r)
                  THEN RemoteHeads(v, Tail(refs), acc \cup as_normal(r.target))
                  ELSE RemoteHeads(v, Tail(refs), acc)

TagHeads(v) == UNION {as_normal(v.tags[t]) : t \in DOMAIN v.tags}

find_immutable_heads(v) ==
    RemoteHeads(v, remote_bookmarks_matching(v, All), {}) \cup TagHeads(v)

\* ---------------------------------------------------------------- rendering
BLUE == "<BLUE>"
BRIGHT_BLACK == "<BRIGHT_BLACK>"
BRIGHT_MAGENTA == "<BRIGHT_MAGENTA>"
GREEN == "<GREEN>"
PURPLE == "<PURPLE>"
RED == "<RED>"
RESET == "<RESET>"
\* the non-ASCII characters of the output, each one character
ELLIPSIS == "U+2026"
DIVERGENT == "U+21D4"
AHEAD == "U+21E1"
BEHIND == "U+21E3"
DELETED == "U+2718"
ColorCodes == {BLUE, BRIGHT_BLACK, BRIGHT_MAGENTA, GREEN, PURPLE, RED, RESET}

format_segment(text, color, show_color) ==
    IF show_color THEN <<color>> \o text \o <<RESET>> ELSE text

\* mutant: the remainder is wrapped in its color even when it is empty
format_change_id_always_rest(change_id, prefix_len, show_prefix_color) ==
    IF ~show_prefix_color THEN change_id
    ELSE LET n == Min(prefix_len, Len(change_id))
         IN  <<BRIGHT_MAGENTA>> \o SubSeq(change_id, 1, n) \o <<RESET>>
             \o <<BRIGHT_BLACK>> \o SubSeq(change_id, n + 1, Len(change_id)) \o <<RESET>>

format_change_id(change_id, prefix_len, show_prefix_color) ==
    IF ~show_prefix_color THEN change_id
    ELSE LET n == Min(prefix_len, Len(change_id))
             prefix == SubSeq(change_id, 1, n)
             rest == SubSeq(change_id, n + 1, Len(change_id))
         IN  IF rest = <<>>
             THEN <<BRIGHT_MAGENTA>> \o prefix \o <<RESET>>
             ELSE <<BRIGHT_MAGENTA>> \o prefix \o <<RESET>>
                  \o <<BRIGHT_BLACK>> \o rest \o <<RESET>>

starts_with(s, p) == Len(p) <= Len(s) /\ SubSeq(s, 1, Len(p)) = p

\* Config::strip_prefix: the first configured prefix the name starts with is removed
RECURSIVE StripFirst(_, _)
StripFirst(name, prefixes) ==
    IF prefixes = <<>> THEN name
    ELSE IF starts_with(name, Head(prefixes))
         THEN SubSeq(name, Len(Head(prefixes)) + 1, Len(name))
         ELSE StripFirst(name, Tail(prefixes))

strip_prefix(cfg, name) == StripFirst(name, cfg.strip_bookmark_prefix)

\* Config::truncate: a name longer than the non-zero width is cut so that, with
\* the ellipsis, it is `width` characters long (test_jj_format_truncated)
truncate(cfg, s) ==
    IF cfg.truncate_name = 0 \/ Len(s) <= cfg.truncate_name THEN s
    ELSE SubSeq(s, 1, cfg.truncate_name - 1) \o <<ELLIPSIS>>

\* mutant: the distance suffix is appended to direct bookmarks too
bookmark_str_always_suffix(cfg, bm) ==
    LET stripped == strip_prefix(cfg, bm[1])
        truncated == truncate(cfg, stripped)
    IN  truncated \o <<"~">> \o ToDecimal(bm[2])

\* mutant: the name is truncated before its prefix is stripped
bookmark_str_truncate_first(cfg, bm) ==
    LET truncated == truncate(cfg, bm[1])
        stripped == strip_prefix(cfg, truncated)
    IN  IF bm[2] > 0 THEN stripped \o <<"~">> \o ToDecimal(bm[2]) ELSE stripped

bookmark_str(cfg, bm) ==
    LET stripped == strip_prefix(cfg, bm[1])
        truncated == truncate(cfg, stripped)
    IN  IF bm[2] > 0 THEN truncated \o <<"~">> \o ToDecimal(bm[2]) ELSE truncated

\* mutant: the needs-push mark depends on is_synced alone
jj_status_unsynced(i) ==
    (IF i.conflict THEN <<"!">> ELSE <<>>)
    \o (IF i.divergent THEN <<DIVERGENT>> ELSE <<>>)
    \o (IF i.empty_desc THEN <<"?">> ELSE <<>>)
    \o (IF ~i.is_synced THEN <<AHEAD>> ELSE <<>>)

jj_status(i) ==
    (IF i.conflict THEN <<"!">> ELSE <<>>)
    \o (IF i.divergent THEN <<DIVERGENT>> ELSE <<>>)
    \o (IF i.empty_desc THEN <<"?">> ELSE <<>>)
    \o (IF i.has_remote /\ ~i.is_synced THEN <<AHEAD>> ELSE <<>>)

\* "on " and the symbol
prefix_segment(symbol, display) ==
    <<"o", "n", " ">> \o format_segment(symbol, BLUE, display.show_color)

\* mutant: the prefix colors are used whenever show_prefix_color is set
use_prefix_color_without_show_color(display) == display.show_prefix_color

use_prefix_color(display) == display.show_color /\ display.show_prefix_color

\* the change id, with or without prefix coloring
id_segment(i, display) ==
    IF use_prefix_color(display)
    THEN format_change_id(i.change_id, i.change_id_prefix_len, TRUE)
    ELSE format_segment(i.change_id, PURPLE, display.show_color)

\* mutant: the hidden bookmarks are dropped without a marker
bookmarks_text_unmarked(i, cfg) ==
    LET total == Len(i.bookmarks)
        limit == cfg.bookmarks_display_limit
        show_count == IF limit = 0 THEN total ELSE Min(limit, total)
        shown == [k \in 1..show_count |-> bookmark_str(cfg, i.bookmarks[k])]
    IN  <<"(">> \o Join(shown, <<",", " ">>) \o <<")">>

\* the parenthesised bookmark list
bookmarks_text(i, cfg) ==
    LET total == Len(i.bookmarks)
        limit == cfg.bookmarks_display_limit
        show_count == IF limit = 0 THEN total ELSE Min(limit, total)
        hidden == IF total > show_count THEN total - show_count ELSE 0
        shown == [k \in 1..show_count |-> bookmark_str(cfg, i.bookmarks[k])]
        bookmark_strs == IF hidden > 0
                         THEN Append(shown, <<ELLIPSIS, "+">> \o ToDecimal(hidden))
                         ELSE shown
    IN  <<"(">> \o Join(bookmark_strs, <<",", " ">>) \o <<")">>

\* mutant: the separating space is pushed unconditionally
push_spaced_always(out, segment) == out \o <<" ">> \o segment

\* `if !out.is_empty() { out.push(' ') }`, then the segment
push_spaced(out, segment) ==
    out \o (IF out # <<>> THEN <<" ">> ELSE <<>>) \o segment

has_bookmark_segment(i, display) == display.show_name /\ i.bookmarks # <<>>

format_jj(i, cfg) ==
    LET display == cfg.jj_display
        out1 == IF display.show_prefix THEN prefix_segment(cfg.jj_symbol, display) ELSE <<>>
        out2 == IF display.show_id THEN out1 \o id_segment(i, display) ELSE out1
        out3 == IF has_bookmark_segment(i, display)
                THEN push_spaced(out2, format_segment(bookmarks_text(i, cfg), GREEN,
                                                      display.show_color))
                ELSE out2
        status == jj_status(i)
        status_text == <<"[">> \o status \o <<"]">>
        out4 == IF display.show_status /\ status # <<>>
                THEN push_spaced(out3, format_segment(status_text, RED, display.show_color))
                ELSE out3
    IN  out4

git_status(g) ==
    (IF g.conflicted > 0 THEN <<"=">> ELSE <<>>)
    \o (IF g.staged > 0 THEN <<"+">> ELSE <<>>)
    \o (IF g.modified > 0 THEN <<"!">> ELSE <<>>)
    \o (IF g.untracked > 0 THEN <<"?">> ELSE <<>>)
    \o (IF g.deleted > 0 THEN <<DELETED>> ELSE <<>>)
    \o (IF g.ahead > 0 THEN <<AHEAD>> \o ToDecimal(g.ahead) ELSE <<>>)
    \o (IF g.behind > 0 THEN <<BEHIND>> \o ToDecimal(g.behind) ELSE <<>>)

\* the branch name, or HEAD
name_segment(g, cfg) ==
    LET name == IF g.branch = "none" THEN <<"H", "E", "A", "D">> ELSE truncate(cfg, g.branch)
    IN  format_segment(name, PURPLE, cfg.git_display.show_color)

format_git(g, cfg) ==
    LET display == cfg.git_display
        out1 == IF display.show_prefix THEN prefix_segment(cfg.git_symbol, display) ELSE <<>>
        out2 == IF display.show_name THEN out1 \o name_segment(g, cfg) ELSE out1
        id_text == <<"(">> \o g.head_short \o <<")">>
        out3 == IF display.show_id
                THEN push_spaced(out2, format_segment(id_text, GREEN, display.show_color))
                ELSE out2
        status == git_status(g)
        status_text == <<"[">> \o status \o <<"]">>
        out4 == IF display.show_status /\ status # <<>>
                THEN push_spaced(out3, format_segment(status_text, RED, display.show_color))
                ELSE out3
    IN  out4

\* ---------------------------------------------------------------- find_ancestor_bookmarks
\* mutant: HashMap::insert, which overwrites an earlier entry
or_insert_overwrite(map, name, depth) ==
    [x \in DOMAIN map \cup {name} |-> IF x = name THEN depth ELSE map[x]]

\* bookmarks_with_distances.entry(name).or_insert(depth)
or_insert(map, name, depth) ==
    IF name \in DOMAIN map THEN map ELSE map @@ (name :> depth)

\* the loop over view.local_bookmarks_for_commit(&commit_id)
RECURSIVE record_bookmarks(_, _, _)
record_bookmarks(map, names, depth) ==
    IF names = <<>> THEN map
    ELSE record_bookmarks(or_insert(map, Head(names), depth), Tail(names), depth)

\* mutant: the immutable-head test is missing
should_expand_through_heads(commit_id, depth, max_depth, heads) ==
    depth < max_depth

\* mutant: the depth test is off by one
should_expand_at_bound(commit_id, depth, max_depth, heads) ==
    commit_id \notin heads /\ depth <= max_depth

\* the two tests that guard the enqueueing of a visited commit's parents
should_expand(commit_id, depth, max_depth, heads) ==
    commit_id \notin heads /\ depth < max_depth

\* queue.push_back((parent_id.clone(), depth)) for every parent id
push_parents(q, parent_ids, depth) ==
    q \o [k \in 1..Len(parent_ids) |-> <<parent_ids[k], depth>>]

\* HashMap::into_iter: every enumeration of the entries is a possible order
IterationOrders(map) ==
    LET names == DOMAIN map
        n == Cardinality(names)
    IN  {[k \in 1..n |-> <<f[k], map[f[k]]>>] :
            f \in {g \in [1..n -> names] : \A i, j \in 1..n : i # j => g[i] # g[j]}}

\* Vec::sort_by_key on the distance: a stable sort
RECURSIVE insert_sorted(_, _)
insert_sorted(sorted, x) ==
    IF sorted = <<>> THEN <<x>>
    ELSE IF x[2] < Head(sorted)[2] THEN <<x>> \o sorted
    ELSE <<Head(sorted)>> \o insert_sorted(Tail(sorted), x)

RECURSIVE sort_by_key_from(_, _)
sort_by_key_from(done, rest) ==
    IF rest = <<>> THEN done
    ELSE sort_by_key_from(insert_sorted(done, Head(rest)), Tail(rest))

\* mutant: the vector is returned in the map's iteration order
sort_by_key_missing(v) == v

sort_by_key(v) == sort_by_key_from(<<>>, v)

\* ---------------------------------------------------------------- collect
\* change_id_full[..id_length.min(change_id_full.len())]
short_change_id(full, id_length) == SubSeq(full, 1, Min(id_length, Len(full)))

\* mutant: the prefix length is not capped at the displayed length
prefix_len_of_uncapped(lookup, id_length, change_id) ==
    IF lookup = <<>> THEN id_length ELSE lookup[1]

\* shortest_unique_change_id_prefix_len(..).unwrap_or(id_length).min(change_id.len())
\* (a lookup result is <<>> for Err and <<n>> for Ok(n))
prefix_len_of(lookup, id_length, change_id) ==
    Min(IF lookup = <<>> THEN id_length ELSE lookup[1], Len(change_id))

\* resolve_change_id(..).ok().flatten().is_some_and(|commits| commits.len() > 1)
\* mutant: a failed resolution counts as a divergent change
divergent_of_err_is_many(lookup) ==
    IF lookup = <<>> THEN TRUE ELSE lookup[1] > 1

\* (<<>> is Err, <<0>> is Ok(None), <<n>> is Ok(Some(n commits)))
divergent_of(lookup) ==
    IF lookup = <<>> THEN FALSE ELSE lookup[1] > 1

\* direct bookmarks of the working-copy commit, at distance 0
direct_bookmarks(v, wc_id) ==
    LET names == local_bookmarks_for_commit(v, wc_id)
    IN  [k \in 1..Len(names) |-> <<names[k], 0>>]

\* mutant: the "git" remote is counted as a remote
RECURSIVE sync_loop_counts_git(_, _, _, _)
sync_loop_counts_git(refs, local_target, has_remote, is_synced) ==
    IF refs = <<>> THEN <<has_remote, is_synced>>
    ELSE IF Head(refs).target = local_target THEN <<TRUE, TRUE>>
    ELSE sync_loop_counts_git(Tail(refs), local_target, TRUE, is_synced)

\* the loop over the remote counterparts of the first bookmark
RECURSIVE sync_loop(_, _, _, _)
sync_loop(refs, local_target, has_remote, is_synced) ==
    IF refs = <<>> THEN <<has_remote, is_synced>>
    ELSE IF Head(refs).remote = "git"
         THEN sync_loop(Tail(refs), local_target, has_remote, is_synced)
    ELSE IF Head(refs).target = local_target THEN <<TRUE, TRUE>>
    ELSE sync_loop(Tail(refs), local_target, TRUE, is_synced)

\* (has_remote, is_synced) of the first (closest) bookmark
sync_status(v, bms) ==
    IF bms = <<>> THEN <<FALSE, TRUE>>
    ELSE LET bm_name == bms[1][1]
             local_target == get_local_bookmark(v, bm_name)
             r == sync_loop(remote_bookmarks_matching(v, {bm_name}), local_target, FALSE, FALSE)
         IN  <<r[1], r[2] \/ ~r[1]>>

NoInfo == [tag |-> "none"]
ErrInfo == [tag |-> "err"]
IsJjInfo(i) == i.tag = "jj"
IsGitInfo(i) == i.tag = "git"

\* the JjInfo that collect builds (lines 268-277)
JjInfo(p, bms, sync) ==
    [tag |-> "jj",
     change_id |-> p.change_id,
     change_id_prefix_len |-> p.change_id_prefix_len,
     bookmarks |-> bms,
     empty_desc |-> p.empty_desc,
     conflict |-> p.conflict,
     divergent |-> p.divergent,
     has_remote |-> sync[1],
     is_synced |-> sync[2]]

\* what git::collect can return
GitInfos ==
    {[tag |-> "git", branch |-> "none", head_short |-> <<"a", "3">>, conflicted |-> 0,
      staged |-> 0, modified |-> 0, untracked |-> 0, deleted |-> 0, ahead |-> 0, behind |-> 0],
     [tag |-> "git", branch |-> MAIN, head_short |-> <<"a", "3">>, conflicted |-> 0,
      staged |-> 1, modified |-> 2, untracked |-> 0, deleted |-> 0, ahead |-> 1, behind |-> 0]}

\* ---------------------------------------------------------------- the invocation
NoDetect == [repo_type |-> "unset", has_root |-> FALSE]

Fresh ==
    /\ pc = "main"
    /\ command = "unset"
    /\ queue = <<>>
    /\ visited = {}
    /\ bookmarks_with_distances = <<>>
    /\ immutable_heads = {}
    /\ ancestors = <<>>
    /\ bookmarks = <<>>
    /\ partial = NoInfo
    /\ info = NoInfo
    /\ output = <<>>
    /\ stdout = <<>>
    /\ exit_code = "running"
    /\ commit_loads = {}
    /\ bookmark_reads = {}
    /\ processed = <<>>
    /\ expanded = {}
    /\ failed = {}
    /\ detected = NoDetect

\* mutant: the error is replaced by a default: an empty string is printed
AbortPrintsDefault(kind) ==
    /\ failed' = failed \cup {kind}
    /\ info' = ErrInfo
    /\ output' = <<<<>>>>
    /\ stdout' = Append(stdout, <<>>)
    /\ exit_code' = "SUCCESS"
    /\ pc' = "done"
    /\ queue' = <<>>
    /\ visited' = {}
    /\ bookmarks_with_distances' = <<>>
    /\ immutable_heads' = {}
    /\ ancestors' = <<>>
    /\ bookmarks' = <<>>
    /\ partial' = NoInfo

\* the error path: collect's Err becomes run_prompt's None (`.ok()?`) and main
\* returns ExitCode::FAILURE without printing; the locals are dropped
Abort(kind) ==
    /\ failed' = failed \cup {kind}
    /\ info' = ErrInfo
    /\ output' = <<>>
    /\ stdout' = stdout
    /\ exit_code' = "FAILURE"
    /\ pc' = "done"
    /\ queue' = <<>>
    /\ visited' = {}
    /\ bookmarks_with_distances' = <<>>
    /\ immutable_heads' = {}
    /\ ancestors' = <<>>
    /\ bookmarks' = <<>>
    /\ partial' = NoInfo

\* main: no working directory (main.rs 113-115)
MainNoCwd ==
    /\ pc = "main"
    /\ pc' = "done"
    /\ exit_code' = "FAILURE"
    /\ UNCHANGED <<env, command, search, bookmarks, partial, info, output, stdout, hist, run, prev>>

\* main: Command::Prompt (the default) calls run_prompt
MainPrompt ==
    /\ pc = "main"
    /\ command' = "Prompt"
    /\ pc' = "run_prompt"
    /\ UNCHANGED <<env, search, bookmarks, partial, info, output, stdout, exit_code, hist, run, prev>>

\* main: Command::Detect prints nothing and exits by detect::in_repo
MainDetect ==
    /\ pc = "main"
    /\ command' = "Detect"
    /\ pc' = "done"
    /\ \E in_repo \in BOOLEAN : exit_code' = IF in_repo THEN "SUCCESS" ELSE "FAILURE"
    /\ UNCHANGED <<env, search, bookmarks, partial, info, output, stdout, hist, run, prev>>

\* main: Command::Version prints the build information
MainVersion ==
    /\ pc = "main"
    /\ command' = "Version"
    /\ pc' = "done"
    /\ stdout' = <<<<"v">>>>
    /\ exit_code' = "SUCCESS"
    /\ UNCHANGED <<env, search, bookmarks, partial, info, output, hist, run, prev>>

\* run_prompt: RepoType::None, a disabled variant, or no repo_root
RunPromptNoRepo ==
    /\ pc = "run_prompt"
    /\ \E t \in {"Jj", "JjColocated", "Git", "None"}, root \in BOOLEAN :
         /\ t = "None" \/ ~root
         /\ detected' = [repo_type |-> t, has_root |-> root]
    /\ output' = <<>>
    /\ exit_code' = "FAILURE"
    /\ pc' = "done"
    /\ UNCHANGED <<env, command, search, bookmarks, partial, info, stdout,
                   commit_loads, bookmark_reads, processed, expanded, failed, run, prev>>

\* run_prompt: a jj repository with a root: jj::collect is called
\* (RepoType::Jj and RepoType::JjColocated take the same arm, recorded as "Jj")
RunPromptJj ==
    /\ pc = "run_prompt"
    /\ detected' = [repo_type |-> "Jj", has_root |-> TRUE]
    /\ pc' = "collect"
    /\ UNCHANGED <<env, command, search, bookmarks, partial, info, output, stdout, exit_code,
                   commit_loads, bookmark_reads, processed, expanded, failed, run, prev>>

\* run_prompt: a git repository with a root: git::collect returns a GitInfo
RunPromptGit ==
    /\ pc = "run_prompt"
    /\ detected' = [repo_type |-> "Git", has_root |-> TRUE]
    /\ \E g \in GitInfos : info' = g
    /\ pc' = "render"
    /\ UNCHANGED <<env, command, search, bookmarks, partial, output, stdout, exit_code,
                   commit_loads, bookmark_reads, processed, expanded, failed, run, prev>>

\* run_prompt: git::collect fails
RunPromptGitFail ==
    /\ pc = "run_prompt"
    /\ detected' = [repo_type |-> "Git", has_root |-> TRUE]
    /\ Abort("git")
    /\ UNCHANGED <<env, command, commit_loads, bookmark_reads, processed, expanded, run, prev>>


\* collect: the workspace, the repository or the working-copy commit cannot be
\* loaded, or the workspace has no working copy (jj.rs 174-201)
CollectLoadFail ==
    /\ pc = "collect"
    /\ \E kind \in {"workspace", "wc_commit"} :
         /\ Abort(kind)
         /\ commit_loads' = IF kind = "wc_commit" THEN commit_loads \cup {WC} ELSE commit_loads
    /\ UNCHANGED <<env, command, bookmark_reads, processed, expanded, detected, run, prev>>

\* collect up to the direct bookmarks (jj.rs 174-231)
CollectLoad ==
    /\ pc = "collect"
    /\ commit_loads' = commit_loads \cup {WC}
    /\ LET change_id == short_change_id(wc_commit.change_id, config.id_length)
       IN  partial' = [tag |-> "partial",
                       change_id |-> change_id,
                       change_id_prefix_len |->
                           prefix_len_of(index.prefix, config.id_length, change_id),
                       empty_desc |-> wc_commit.empty_desc,
                       conflict |-> wc_commit.conflict,
                       divergent |-> divergent_of(index.resolve)]
    /\ failed' = failed \cup (IF index.prefix = <<>> THEN {"prefix"} ELSE {})
                        \cup (IF index.resolve = <<>> THEN {"resolve"} ELSE {})
    /\ bookmarks' = direct_bookmarks(view, WC)
    /\ bookmark_reads' = bookmark_reads \cup {WC}
    /\ pc' = IF config.ancestor_bookmark_depth > 0 THEN "search" ELSE "assemble"
    /\ UNCHANGED <<env, command, search, info, output, stdout, exit_code,
                   processed, expanded, detected, run, prev>>

\* find_ancestor_bookmarks up to the loop (jj.rs 112-127)
SearchStart ==
    /\ pc = "search"
    /\ immutable_heads' = find_immutable_heads(view)
    /\ commit_loads' = commit_loads \cup {WC}
    /\ queue' = push_parents(<<>>, parents[WC], 1)
    /\ visited' = {}
    /\ bookmarks_with_distances' = <<>>
    /\ pc' = "bfs"
    /\ UNCHANGED <<env, command, ancestors, bookmarks, partial, info, output, stdout,
                   exit_code, bookmark_reads, processed, expanded, failed, detected, run, prev>>

\* find_ancestor_bookmarks: the working-copy commit cannot be loaded (jj.rs 120-123)
SearchStartFail ==
    /\ pc = "search"
    /\ commit_loads' = commit_loads \cup {WC}
    /\ Abort("wc_commit")
    /\ UNCHANGED <<env, command, bookmark_reads, processed, expanded, detected, run, prev>>

\* mutant: a skipped entry is put back at the end of the queue
BfsSkipRequeues ==
    /\ pc = "bfs"
    /\ queue # <<>>
    /\ LET commit_id == Head(queue)[1]
           depth == Head(queue)[2]
       IN  depth > config.ancestor_bookmark_depth \/ commit_id \in visited
    /\ queue' = Append(Tail(queue), Head(queue))
    /\ UNCHANGED <<env, command, pc, visited, bookmarks_with_distances, immutable_heads,
                   ancestors, bookmarks, partial, info, output, stdout, exit_code, hist,
                   run, prev>>

\* one iteration of the loop that skips its entry (jj.rs 129-138)
BfsSkip ==
    /\ pc = "bfs"
    /\ queue # <<>>
    /\ LET commit_id == Head(queue)[1]
           depth == Head(queue)[2]
       IN  depth > config.ancestor_bookmark_depth \/ commit_id \in visited
    /\ queue' = Tail(queue)
    /\ UNCHANGED <<env, command, pc, visited, bookmarks_with_distances, immutable_heads,
                   ancestors, bookmarks, partial, info, output, stdout, exit_code, hist,
                   run, prev>>

\* mutant: the visited set is not consulted
BfsVisitAgain ==
    /\ pc = "bfs"
    /\ queue # <<>>
    /\ LET commit_id == Head(queue)[1]
           depth == Head(queue)[2]
           max_depth == config.ancestor_bookmark_depth
       IN  /\ depth <= max_depth
           /\ visited' = visited \cup {commit_id}
           /\ bookmarks_with_distances' =
                  record_bookmarks(bookmarks_with_distances,
                                   local_bookmarks_for_commit(view, commit_id), depth)
           /\ bookmark_reads' = bookmark_reads \cup {commit_id}
           /\ processed' = Append(processed, <<commit_id, depth>>)
           /\ IF should_expand(commit_id, depth, max_depth, immutable_heads)
              THEN /\ commit_loads' = commit_loads \cup {commit_id}
                   /\ expanded' = expanded \cup {<<commit_id, depth>>}
                   /\ queue' = push_parents(Tail(queue), parents[commit_id], depth + 1)
              ELSE /\ queue' = Tail(queue)
                   /\ UNCHANGED <<commit_loads, expanded>>
    /\ UNCHANGED <<env, command, pc, immutable_heads, ancestors, bookmarks, partial, info,
                   output, stdout, exit_code, failed, detected, run, prev>>

\* one iteration of the loop that visits a commit (jj.rs 129-162)
BfsVisit ==
    /\ pc = "bfs"
    /\ queue # <<>>
    /\ LET commit_id == Head(queue)[1]
           depth == Head(queue)[2]
           max_depth == config.ancestor_bookmark_depth
       IN  /\ depth <= max_depth
           /\ commit_id \notin visited
           /\ visited' = visited \cup {commit_id}
           /\ bookmarks_with_distances' =
                  record_bookmarks(bookmarks_with_distances,
                                   local_bookmarks_for_commit(view, commit_id), depth)
           /\ bookmark_reads' = bookmark_reads \cup {commit_id}
           /\ processed' = Append(processed, <<commit_id, depth>>)
           /\ IF should_expand(commit_id, depth, max_depth, immutable_heads)
              THEN /\ commit_loads' = commit_loads \cup {commit_id}
                   /\ expanded' = expanded \cup {<<commit_id, depth>>}
                   /\ queue' = push_parents(Tail(queue), parents[commit_id], depth + 1)
              ELSE /\ queue' = Tail(queue)
                   /\ UNCHANGED <<commit_loads, expanded>>
    /\ UNCHANGED <<env, command, pc, immutable_heads, ancestors, bookmarks, partial, info,
                   output, stdout, exit_code, failed, detected, run, prev>>

\* mutant: a commit that cannot be loaded is treated as a commit without parents
BfsLoadFailIgnored ==
    /\ pc = "bfs"
    /\ queue # <<>>
    /\ LET commit_id == Head(queue)[1]
           depth == Head(queue)[2]
       IN  /\ depth <= config.ancestor_bookmark_depth
           /\ commit_id \notin visited
           /\ should_expand(commit_id, depth, config.ancestor_bookmark_depth, immutable_heads)
           /\ visited' = visited \cup {commit_id}
           /\ bookmarks_with_distances' =
                  record_bookmarks(bookmarks_with_distances,
                                   local_bookmarks_for_commit(view, commit_id), depth)
           /\ bookmark_reads' = bookmark_reads \cup {commit_id}
           /\ processed' = Append(processed, <<commit_id, depth>>)
           /\ commit_loads' = commit_loads \cup {commit_id}
    /\ failed' = failed \cup {"parent"}
    /\ queue' = Tail(queue)
    /\ UNCHANGED <<env, command, pc, immutable_heads, ancestors, bookmarks, partial, info,
                   output, stdout, exit_code, expanded, detected, run, prev>>

\* one iteration of the loop in which the commit to expand cannot be loaded
\* (jj.rs 154-157): the `?` returns the error
BfsLoadFail ==
    /\ pc = "bfs"
    /\ queue # <<>>
    /\ LET commit_id == Head(queue)[1]
           depth == Head(queue)[2]
           max_depth == config.ancestor_bookmark_depth
       IN  /\ depth <= max_depth
           /\ commit_id \notin visited
           /\ should_expand(commit_id, depth, max_depth, immutable_heads)
           /\ bookmark_reads' = bookmark_reads \cup {commit_id}
           /\ processed' = Append(processed, <<commit_id, depth>>)
           /\ commit_loads' = commit_loads \cup {commit_id}
    /\ Abort("parent")
    /\ UNCHANGED <<env, command, expanded, detected, run, prev>>

\* the queue is empty: collect the map into a vector and sort it (jj.rs 165-168)
SearchFinish ==
    /\ pc = "bfs"
    /\ queue = <<>>
    /\ \E order \in IterationOrders(bookmarks_with_distances) :
         ancestors' = sort_by_key(order)
    /\ pc' = "assemble"
    /\ UNCHANGED <<env, command, queue, visited, bookmarks_with_distances, immutable_heads,
                   bookmarks, partial, info, output, stdout, exit_code, hist, run, prev>>

\* collect: append the ancestors, check the first bookmark against its remotes
\* and build the JjInfo (jj.rs 235-277)
CollectFinish ==
    /\ pc = "assemble"
    /\ LET bms == IF config.ancestor_bookmark_depth > 0
                  THEN bookmarks \o ancestors ELSE bookmarks
       IN  /\ bookmarks' = bms
           /\ info' = JjInfo(partial, bms, sync_status(view, bms))
    /\ pc' = "render"
    /\ UNCHANGED <<env, command, search, partial, output, stdout, exit_code, hist, run, prev>>

\* run_prompt: Some(output::format_jj(&info, config)) in the jj arm,
\* Some(output::format_git(&info, config)) in the git arm
Render ==
    /\ pc = "render"
    /\ output' = <<IF IsJjInfo(info) THEN format_jj(info, config) ELSE format_git(info, config)>>
    /\ pc' = "print"
    /\ UNCHANGED <<env, command, search, bookmarks, partial, info, stdout, exit_code,
                   hist, run, prev>>

\* main: print!("{output}") and ExitCode::SUCCESS
PrintOutput ==
    /\ pc = "print"
    /\ stdout' = Append(stdout, output[1])
    /\ exit_code' = "SUCCESS"
    /\ pc' = "done"
    /\ UNCHANGED <<env, command, search, bookmarks, partial, info, output, hist, run, prev>>

\* the shell redraws the prompt: the program runs again on the same repository
Reinvoke ==
    /\ pc = "done"
    /\ run < MaxRuns
    /\ run' = run + 1
    /\ prev' = IF IsJjInfo(info) /\ exit_code = "SUCCESS"
               THEN <<[bookmarks |-> info.bookmarks, has_remote |-> info.has_remote,
                       is_synced |-> info.is_synced, text |-> stdout[1]]>>
               ELSE prev
    /\ pc' = "main"
    /\ command' = "unset"
    /\ queue' = <<>>
    /\ visited' = {}
    /\ bookmarks_with_distances' = <<>>
    /\ immutable_heads' = {}
    /\ ancestors' = <<>>
    /\ bookmarks' = <<>>
    /\ partial' = NoInfo
    /\ info' = NoInfo
    /\ output' = <<>>
    /\ stdout' = <<>>
    /\ exit_code' = "running"
    /\ commit_loads' = {}
    /\ bookmark_reads' = {}
    /\ processed' = <<>>
    /\ expanded' = {}
    /\ failed' = {}
    /\ detected' = NoDetect
    /\ UNCHANGED env

\* ---------------------------------------------------------------- repositories
NormalOrAbsent == {t \in Targets : Cardinality(t) <= 1}

\* parent id lists: a commit's parents have larger ids, so the graph is acyclic
ParentLists(c) ==
    LET older == {d \in Commits : d > c}
    IN  {s \in UNION {[1..k -> older] : k \in 0..Cardinality(older)} :
            \A i, j \in 1..Len(s) : i < j => s[i] < s[j]}

\* the commits reachable from S along parent edges
RECURSIVE Ancestry(_, _)
Ancestry(g, S) ==
    LET more == S \cup UNION {Range(g[c]) : c \in S}
    IN  IF more = S THEN S ELSE Ancestry(g, more)

\* the program reads the parents of the working-copy commit's ancestors only: a
\* commit outside that ancestry is given no parents
Graphs == {g \in [Commits -> UNION {ParentLists(c) : c \in Commits}] :
              /\ \A c \in Commits : g[c] \in ParentLists(c)
              /\ \A c \in Commits \ Ancestry(g, {WC}) : g[c] = <<>>}

\* a tag on the working-copy commit is never met by the search
TagTargets == {t \in NormalOrAbsent : WC \notin t}

DefaultDisplay ==
    [show_prefix |-> TRUE, show_name |-> TRUE, show_id |-> TRUE, show_status |-> TRUE,
     show_color |-> TRUE, show_prefix_color |-> TRUE]

DefaultConfig ==
    [truncate_name |-> 0, id_length |-> 2, ancestor_bookmark_depth |-> MaxDepth,
     bookmarks_display_limit |-> 0, strip_bookmark_prefix |-> <<>>,
     jj_symbol |-> <<"j">>, git_symbol |-> <<"g">>,
     jj_display |-> DefaultDisplay, git_display |-> DefaultDisplay]

DefaultWcCommit == [change_id |-> <<"k", "x", "y">>, empty_desc |-> FALSE, conflict |-> FALSE]

\* the commit graph, the local bookmarks, a tag and the search depth vary
Init ==
    /\ parents \in Graphs
    /\ \E feat \in Targets, main \in NormalOrAbsent, tag \in TagTargets :
         view = [local |-> [n \in NameSet |-> IF n = FEAT THEN feat ELSE main],
                 remote |-> {}, tags |-> [t \in TagNames |-> tag]]
    /\ index = [prefix |-> <<1>>, resolve |-> <<1>>]
    /\ wc_commit = DefaultWcCommit
    /\ \E d \in 0..MaxDepth : config = [DefaultConfig EXCEPT !.ancestor_bookmark_depth = d]
    /\ run = 1
    /\ prev = <<>>
    /\ Fresh

Next ==
    \/ MainNoCwd
    \/ MainPrompt
    \/ MainDetect
    \/ MainVersion
    \/ RunPromptNoRepo
    \/ RunPromptJj
    \/ RunPromptGit
    \/ RunPromptGitFail
    \/ CollectLoadFail
    \/ CollectLoad
    \/ SearchStart
    \/ SearchStartFail
    \/ BfsSkip
    \/ BfsVisit
    \/ BfsLoadFail
    \/ SearchFinish
    \/ CollectFinish
    \/ Render
    \/ PrintOutput

Spec == Init /\ [][Next]_vars

\* a second family of repositories: a simple commit graph (a chain, or a merge
\* whose second parent is also its grandparent) under every small set of remote
\* bookmarks
MaxRemoteRefs == 2

Chain == [c \in Commits |-> IF c < MaxCommits THEN <<c + 1>> ELSE <<>>]
Merge == [c \in Commits |-> IF c = WC THEN <<2, 3>> ELSE IF c = 2 THEN <<3>> ELSE <<>>]

\* a remote bookmark points at the working-copy commit or at commit 2
RemoteTargets == {{WC}, {2}}

RemoteRefs == [name : NameSet, remote : RemoteSet, target : RemoteTargets]

RemoteViews ==
    {rs \in SUBSET RemoteRefs :
        /\ Cardinality(rs) <= MaxRemoteRefs
        /\ \A r1, r2 \in rs : (r1.name = r2.name /\ r1.remote = r2.remote) => r1 = r2}

InitView ==
    /\ parents \in {Chain, Merge}
    /\ \E local \in [NameSet -> NormalOrAbsent], remote \in RemoteViews :
         view = [local |-> local, remote |-> remote, tags |-> [t \in TagNames |-> Absent]]
    /\ index = [prefix |-> <<1>>, resolve |-> <<1>>]
    /\ wc_commit = DefaultWcCommit
    /\ config = DefaultConfig
    /\ run = 1
    /\ prev = <<>>
    /\ Fresh

NextView == Next \/ Reinvoke

SpecView == InitView /\ [][NextView]_vars

\* a third family of repositories: the index lookups of the working-copy change
\* id succeed or fail, and the id length, the search depth and the flags of the
\* working-copy commit vary
MaxIdLen == 4

PrefixLookups == {<<>>} \cup {<<n>> : n \in 1..Len(DefaultWcCommit.change_id)}
ResolveLookups == {<<>>, <<0>>, <<1>>, <<2>>}

InitIndex ==
    /\ parents \in {Chain, Merge}
    /\ view = [local |-> [n \in NameSet |-> IF n = FEAT THEN {2} ELSE {3}],
               remote |-> {}, tags |-> [t \in TagNames |-> Absent]]
    /\ index \in [prefix : PrefixLookups, resolve : ResolveLookups]
    /\ \E e \in BOOLEAN, c \in BOOLEAN :
         wc_commit = [DefaultWcCommit EXCEPT !.empty_desc = e, !.conflict = c]
    /\ \E l \in 0..MaxIdLen, d \in {0, MaxDepth} :
         config = [DefaultConfig EXCEPT !.id_length = l, !.ancestor_bookmark_depth = d]
    /\ run = 1
    /\ prev = <<>>
    /\ Fresh

SpecIndex == InitIndex /\ [][Next]_vars

\* the search on every commit graph, under every depth and every tagged commit.
\* The program is one thread that runs to completion: a step that can be taken
\* is taken
InitSearch ==
    /\ parents \in Graphs
    /\ \E tag \in TagTargets :
         view = [local |-> [n \in NameSet |-> IF n = FEAT THEN {2} ELSE {MaxCommits}],
                 remote |-> {}, tags |-> [t \in TagNames |-> tag]]
    /\ index = [prefix |-> <<1>>, resolve |-> <<1>>]
    /\ wc_commit = DefaultWcCommit
    /\ \E d \in 0..MaxDepth : config = [DefaultConfig EXCEPT !.ancestor_bookmark_depth = d]
    /\ run = 1
    /\ prev = <<>>
    /\ Fresh

SpecSearch == InitSearch /\ [][Next]_vars /\ WF_vars(Next)

\* the renderer's inputs.  format_jj and format_git are pure
\* functions of a snapshot and a Config, so the invocation starts where the
\* snapshot has been collected, under every display configuration
MaxShownId == 2

ChangeIdChars == <<"k", "x", "y", "z", "w", "v">>
ShownIds == {SubSeq(ChangeIdChars, 1, n) : n \in 0..MaxShownId}
\* no symbol, a symbol, and a symbol that ends in a space
Symbols == {<<>>, <<"j">>, <<"j", " ">>}
DisplayConfigs ==
    [show_prefix : BOOLEAN, show_name : BOOLEAN, show_id : BOOLEAN, show_status : BOOLEAN,
     show_color : BOOLEAN, show_prefix_color : BOOLEAN]

JjSnapshots ==
    [tag : {"jj"}, change_id : ShownIds, change_id_prefix_len : 0..(MaxShownId + 1),
     bookmarks : {<<>>, <<<<MAIN, 0>>, <<FEAT, 1>>>>},
     empty_desc : BOOLEAN, conflict : BOOLEAN, divergent : BOOLEAN,
     has_remote : BOOLEAN, is_synced : BOOLEAN]

GitSnapshots ==
    [tag : {"git"}, branch : {"none", MAIN}, head_short : {<<"a", "3">>},
     conflicted : {0, 1}, staged : {0, 1}, modified : {0, 1}, untracked : {0, 1},
     deleted : {0, 1}, ahead : {0, 12}, behind : {0, 3}]

\* the invocation has collected `i` and is about to render it under `cfg`
Collecting(i, cfg) ==
    /\ parents = Chain
    /\ view = [local |-> [n \in NameSet |-> Absent], remote |-> {},
               tags |-> [t \in TagNames |-> Absent]]
    /\ index = [prefix |-> <<1>>, resolve |-> <<1>>]
    /\ wc_commit = DefaultWcCommit
    /\ config = cfg
    /\ info = i
    /\ pc = "render"
    /\ command = "Prompt"
    /\ detected = [repo_type |-> IF IsJjInfo(i) THEN "Jj" ELSE "Git", has_root |-> TRUE]
    /\ queue = <<>>
    /\ visited = {}
    /\ bookmarks_with_distances = <<>>
    /\ immutable_heads = {}
    /\ ancestors = <<>>
    /\ bookmarks = <<>>
    /\ partial = NoInfo
    /\ output = <<>>
    /\ stdout = <<>>
    /\ exit_code = "running"
    /\ commit_loads = {}
    /\ bookmark_reads = {}
    /\ processed = <<>>
    /\ expanded = {}
    /\ failed = {}
    /\ run = 1
    /\ prev = <<>>

InitFormat ==
    \E d \in DisplayConfigs, s \in Symbols :
        \/ \E i \in JjSnapshots :
              Collecting(i, [DefaultConfig EXCEPT !.jj_display = d, !.jj_symbol = s])
        \/ \E g \in GitSnapshots :
              Collecting(g, [DefaultConfig EXCEPT !.git_display = d, !.git_symbol = s])

NextFormat == Render \/ PrintOutput

SpecFormat == InitFormat /\ [][NextFormat]_vars

\* bookmark lists under every small truncation width, display
\* limit and strip-prefix list; only the bookmark segment is shown
MaxBookmarks == 3
MaxWidth == 3
MaxLimit == 2

NamePool == <<MAIN, <<"m", "a">>, FEAT, <<"m", "m", "x">>>>
\* n names of the pool in its cyclic order, from the one at `start`
NamesFrom(start, n) == [k \in 1..n |-> NamePool[((start + k - 2) % Len(NamePool)) + 1]]
PrefixPool == {<<"m">>, <<"m", "a">>}

\* collect returns distinct names, direct bookmarks first, by ascending distance
BookmarkLists ==
    UNION {{[k \in 1..n |-> <<NamesFrom(start, n)[k], d[k]>>] :
               start \in 1..Len(NamePool),
               d \in {e \in [1..n -> 0..MaxDepth] : \A j, k \in 1..n : j < k => e[j] <= e[k]}} :
           n \in 0..MaxBookmarks}

StripLists ==
    {p \in UNION {[1..n -> PrefixPool] : n \in 0..Cardinality(PrefixPool)} :
        \A j, k \in 1..Len(p) : j < k => p[j] # p[k]}

NamesOnly ==
    [show_prefix |-> FALSE, show_name |-> TRUE, show_id |-> FALSE, show_status |-> FALSE,
     show_color |-> FALSE, show_prefix_color |-> TRUE]

InitNames ==
    \E b \in BookmarkLists, p \in StripLists, w \in 0..MaxWidth, l \in 0..MaxLimit,
       color \in BOOLEAN :
        Collecting([tag |-> "jj", change_id |-> <<"k", "x">>, change_id_prefix_len |-> 1,
                    bookmarks |-> b, empty_desc |-> FALSE, conflict |-> FALSE,
                    divergent |-> FALSE, has_remote |-> FALSE, is_synced |-> TRUE],
                   [DefaultConfig EXCEPT !.truncate_name = w, !.bookmarks_display_limit = l,
                                         !.strip_bookmark_prefix = p,
                                         !.jj_display = [NamesOnly EXCEPT !.show_color = color]])

SpecNames == InitNames /\ [][NextFormat]_vars

\* the views find_immutable_heads can be given: remote bookmarks on every remote,
\* under trunk and other names, tracked or not, with normal and conflicted targets,
\* and a tag that is absent, normal or conflicted.  find_immutable_heads is a pure
\* function of the view, so the invocation starts where collect has loaded the
\* working-copy commit and calls find_ancestor_bookmarks
HeadTargets == {{2}, {3}, {2, 3}}

HeadRefs == [name : All, remote : RemoteSet, target : HeadTargets]

\* the sets of at most k remote bookmarks
RECURSIVE RefSets(_)
RefSets(k) ==
    IF k = 0 THEN {{}}
    ELSE LET smaller == RefSets(k - 1)
         IN  smaller \cup {rs \cup {r} : rs \in smaller, r \in HeadRefs}

HeadViews ==
    {rs \in RefSets(MaxRemoteRefs) :
        \A r1, r2 \in rs : (r1.name = r2.name /\ r1.remote = r2.remote) => r1 = r2}

\* the local bookmarks: any of the names is present; feat is conflicted
LocalViews ==
    {[n \in tracked |-> IF n = FEAT THEN {2, 3} ELSE {2}] : tracked \in SUBSET All}

TagViews == {Absent, {3}, {2, 3}}

\* collect has run up to the call of find_ancestor_bookmarks (jj.rs 174-236)
Loaded ==
    /\ pc = "search"
    /\ command = "Prompt"
    /\ detected = [repo_type |-> "Jj", has_root |-> TRUE]
    /\ LET change_id == short_change_id(wc_commit.change_id, config.id_length)
       IN  partial = [tag |-> "partial",
                      change_id |-> change_id,
                      change_id_prefix_len |->
                          prefix_len_of(index.prefix, config.id_length, change_id),
                      empty_desc |-> wc_commit.empty_desc,
                      conflict |-> wc_commit.conflict,
                      divergent |-> divergent_of(index.resolve)]
    /\ bookmarks = direct_bookmarks(view, WC)
    /\ commit_loads = {WC}
    /\ bookmark_reads = {WC}
    /\ queue = <<>>
    /\ visited = {}
    /\ bookmarks_with_distances = <<>>
    /\ immutable_heads = {}
    /\ ancestors = <<>>
    /\ info = NoInfo
    /\ output = <<>>
    /\ stdout = <<>>
    /\ exit_code = "running"
    /\ processed = <<>>
    /\ expanded = {}
    /\ failed = {}

InitHeads ==
    /\ parents = Chain
    /\ \E local \in LocalViews, remote \in HeadViews, tag \in TagViews :
         view = [local |-> local, remote |-> remote, tags |-> [t \in TagNames |-> tag]]
    /\ index = [prefix |-> <<1>>, resolve |-> <<1>>]
    /\ wc_commit = DefaultWcCommit
    /\ config = DefaultConfig
    /\ run = 1
    /\ prev = <<>>
    /\ Loaded

NextHeads == SearchStart \/ SearchStartFail

SpecHeads == InitHeads /\ [][NextHeads]_vars

\* ---------------------------------------------------------------- reference notions
max_depth == config.ancestor_bookmark_depth
Heads == find_immutable_heads(view)

SetMin(S) == CHOOSE x \in S : \A y \in S : x <= y

\* the commits at the end of a parent path of exactly d hops from the working-copy
\* commit, none of whose intermediate commits is an immutable head
RECURSIVE PathEnds(_)
PathEnds(d) ==
    IF d = 1 THEN Range(parents[WC])
    ELSE UNION {Range(parents[c]) : c \in PathEnds(d - 1) \ Heads}

\* the depths (within max_depth) at which such a path reaches a commit bearing the name
NameDepths(n) == {d \in 1..max_depth : PathEnds(d) \cap view.local[n] # {}}

\* the depths at which the search has visited a commit bearing the name
VisitDepths(n) == {processed[i][2] : i \in {k \in 1..Len(processed) : processed[k][1] \in view.local[n]}}

Searching == pc = "bfs"
Collected == IsJjInfo(info)

\* C1: every name in the search's map, and in its result, carries the smallest depth
\* at which the search visited a commit bearing it, which is the minimum hop count
\* (>= 1, <= max_depth) over parent paths whose intermediate commits are not
\* immutable heads; no name appears twice in the result.
C1_ShortestDepthWins ==
    /\ \A n \in DOMAIN bookmarks_with_distances :
         /\ VisitDepths(n) # {}
         /\ bookmarks_with_distances[n] = SetMin(VisitDepths(n))
    /\ \A i \in DOMAIN ancestors :
         /\ NameDepths(ancestors[i][1]) # {}
         /\ ancestors[i][2] = SetMin(NameDepths(ancestors[i][1]))
         /\ ancestors[i][2] >= 1
    /\ \A i, j \in DOMAIN ancestors : i # j => ancestors[i][1] # ancestors[j][1]

\* a name found on two visited commits at different depths is in the result
C1_Witness ==
    /\ pc = "done"
    /\ Collected
    /\ \E i \in DOMAIN ancestors : Cardinality(VisitDepths(ancestors[i][1])) >= 2

\* C2: an immutable head is a barrier: its parents are never enqueued from it, its
\* own bookmarks are recorded at its depth (or at a smaller one found earlier), and
\* a commit is visited only if a parent path of at most max_depth hops reaches it
\* without an immutable head as an intermediate commit.
C2_ImmutableBarrier ==
    /\ \A e \in expanded : e[1] \notin Heads
    /\ \A i \in DOMAIN processed :
         /\ processed[i][2] \in 1..max_depth
         /\ processed[i][1] \in PathEnds(processed[i][2])
    /\ (Searching \/ Collected) =>
         \A i \in DOMAIN processed :
           processed[i][1] \in Heads =>
             \A n \in NameSet :
               processed[i][1] \in view.local[n] =>
                 /\ n \in DOMAIN bookmarks_with_distances
                 /\ bookmarks_with_distances[n] <= processed[i][2]

\* the search visited an immutable head that bears a bookmark and has a parent, below
\* the depth bound, and neither expanded it nor visited that parent
C2_Witness ==
    /\ pc = "done"
    /\ Collected
    /\ \E i \in DOMAIN processed :
         LET c == processed[i][1]
         IN  /\ c \in Heads
             /\ processed[i][2] < max_depth
             /\ \E n \in NameSet : c \in view.local[n]
             /\ \E k \in DOMAIN parents[c] :
                  \A j \in DOMAIN processed : processed[j][1] # parents[c][k]

\* C3: every ancestor bookmark has a distance in 1..max_depth, no commit is expanded
\* at depth >= max_depth, and with max_depth = 0 there are no ancestor bookmarks and
\* no commit other than the working-copy commit is loaded or queried for bookmarks.
C3_DepthBound ==
    /\ \A i \in DOMAIN ancestors : ancestors[i][2] \in 1..max_depth
    /\ Collected => \A i \in DOMAIN info.bookmarks : info.bookmarks[i][2] \in 0..max_depth
    /\ \A e \in expanded : e[2] < max_depth
    /\ max_depth = 0 =>
         /\ ancestors = <<>>
         /\ processed = <<>>
         /\ commit_loads \subseteq {WC}
         /\ bookmark_reads \subseteq {WC}
         /\ Collected => \A i \in DOMAIN info.bookmarks : info.bookmarks[i][2] = 0

\* the bound cut the search: a commit visited at depth max_depth is no immutable
\* head and has parents, and none of them was read
C3_Witness ==
    /\ pc = "done"
    /\ Collected
    /\ \E i \in DOMAIN processed :
         LET c == processed[i][1]
         IN  /\ processed[i][2] = max_depth
             /\ c \notin Heads
             /\ parents[c] # <<>>
             /\ \A k \in DOMAIN parents[c] : parents[c][k] \notin bookmark_reads

IsSortedByDistance(bms) ==
    \A i, j \in DOMAIN bms : i < j => bms[i][2] <= bms[j][2]

\* C4: the snapshot's bookmark list is the direct bookmarks (distance 0) followed by
\* the ancestor bookmarks, which are the map's entries in ascending distance; the
\* whole list is sorted by non-decreasing distance.
C4_SortedDirectFirst ==
    /\ IsSortedByDistance(ancestors)
    /\ Collected =>
         /\ info.bookmarks = direct_bookmarks(view, WC) \o ancestors
         /\ IsSortedByDistance(info.bookmarks)
         /\ Range(ancestors) = {<<n, bookmarks_with_distances[n]>> : n \in DOMAIN bookmarks_with_distances}
         /\ \A i, j \in DOMAIN info.bookmarks :
              (info.bookmarks[i][2] = 0 /\ info.bookmarks[j][2] > 0) => i < j

\* a snapshot with a direct bookmark and ancestor bookmarks at two distances
C4_Witness ==
    /\ pc = "done"
    /\ Collected
    /\ \E i, j, k \in DOMAIN info.bookmarks :
         /\ info.bookmarks[i][2] = 0
         /\ info.bookmarks[j][2] > 0
         /\ info.bookmarks[k][2] > info.bookmarks[j][2]

\* C5 (as claimed): no bookmark name appears twice in the snapshot's list.
C5_NamesUnique ==
    Collected =>
        \A i, j \in DOMAIN info.bookmarks : i # j => info.bookmarks[i][1] # info.bookmarks[j][1]

\* the snapshot of the previous successful invocation on this repository
Snapshot ==
    [bookmarks |-> info.bookmarks, has_remote |-> info.has_remote,
     is_synced |-> info.is_synced, text |-> stdout[1]]

\* C6 (as claimed): a second invocation on the same repository and configuration
\* yields the same bookmark list, the same sync flags and the same rendered string.
C6_Deterministic ==
    (pc = "done" /\ Collected /\ exit_code = "SUCCESS" /\ prev # <<>>) => prev[1] = Snapshot

RealRemotes(n) == {r \in view.remote : r.name = n /\ r.remote # "git"}

FatalReads == {"workspace", "wc_commit", "parent"}

\* C8 (as claimed): whenever a backend lookup of collect has failed, no JjInfo is
\* produced.
C8_AnyFailureAborts ==
    failed # {} => (~Collected /\ (pc = "done" => info = ErrInfo))

\* C8 (amended): a failed load of the workspace, of the working-copy commit or of a
\* parent commit aborts the collection with an error; a failed change-id resolution
\* or unique-prefix lookup does not: divergent is false, respectively the prefix
\* length is min(id_length, length of the displayed id), and the JjInfo is returned.
C8_FatalReadsAbort ==
    /\ failed \cap FatalReads # {} =>
         (pc = "done" /\ info = ErrInfo /\ exit_code = "FAILURE" /\ stdout = <<>>)
    /\ Collected =>
         /\ failed \subseteq {"resolve", "prefix"}
         /\ "resolve" \in failed => ~info.divergent
         /\ "prefix" \in failed =>
              info.change_id_prefix_len = Min(config.id_length, Len(info.change_id))
    /\ (pc = "done" /\ detected = [repo_type |-> "Jj", has_root |-> TRUE]
        /\ failed \cap FatalReads = {}) => Collected

\* both index lookups failed and the snapshot was produced and printed
C8_Witness ==
    /\ pc = "done"
    /\ Collected
    /\ failed = {"resolve", "prefix"}
    /\ stdout # <<>>

\* C9: a commit that cannot be loaded in the ancestor search ends the invocation
\* with an error: no bookmark list is returned, no JjInfo is produced, nothing is
\* rendered or printed.
C9_SearchLoadFailureAborts ==
    (failed \cap {"parent", "wc_commit"} # {}) =>
        /\ pc = "done"
        /\ info = ErrInfo
        /\ ancestors = <<>>
        /\ bookmarks = <<>>
        /\ output = <<>>
        /\ stdout = <<>>
        /\ exit_code = "FAILURE"

\* the search had visited a commit bearing a bookmark before the load that failed
C9_Witness ==
    /\ "parent" \in failed
    /\ pc = "done"
    /\ \E i \in DOMAIN processed :
         /\ i < Len(processed)
         /\ \E n \in NameSet : processed[i][1] \in view.local[n]

UpstreamFailure ==
    \/ detected.repo_type = "None"
    \/ (detected.repo_type # "unset" /\ ~detected.has_root)
    \/ info = ErrInfo

\* C10: for the prompt command, an upstream failure prints nothing and exits with
\* FAILURE; something is printed only once collect has returned its info and the
\* rendering is complete, it is the rendered string, and the exit status is then
\* SUCCESS.
C10_SilentFailure ==
    command = "Prompt" =>
        /\ UpstreamFailure => (stdout = <<>> /\ output = <<>>)
        /\ (pc = "done" /\ UpstreamFailure) => exit_code = "FAILURE"
        /\ stdout # <<>> =>
             /\ pc = "done"
             /\ Collected \/ IsGitInfo(info)
             /\ queue = <<>>
             /\ output # <<>>
             /\ stdout = <<output[1]>>
             /\ Collected => output[1] = format_jj(info, config)
             /\ IsGitInfo(info) => output[1] = format_git(info, config)
        /\ exit_code = "SUCCESS" <=> stdout # <<>>

\* collect failed after the search had started: nothing printed, FAILURE
C10_Witness ==
    /\ command = "Prompt"
    /\ pc = "done"
    /\ info = ErrInfo
    /\ processed # <<>>
    /\ stdout = <<>>
    /\ exit_code = "FAILURE"

\* ---------------------------------------------------------------- rendering claims
\* the invocation has rendered: `output` holds the string that will be printed
Rendered == pc = "print"
Out == output[1]
Display == IF IsJjInfo(info) THEN config.jj_display ELSE config.git_display
Symbol == IF IsJjInfo(info) THEN config.jj_symbol ELSE config.git_symbol

Last(s) == s[Len(s)]
NonEmpty(s) == s # <<>>
\* the non-empty segments, each separated from the one before by a single space
JoinSpaced(segments) == Join(SelectSeq(segments, NonEmpty), <<" ">>)

\* the four segments of the output, in order, each empty when it is not emitted
PrefixPart == IF Display.show_prefix THEN prefix_segment(Symbol, Display) ELSE <<>>
SecondPart ==
    IF IsJjInfo(info)
    THEN (IF Display.show_id THEN id_segment(info, Display) ELSE <<>>)
    ELSE (IF Display.show_name THEN name_segment(info, config) ELSE <<>>)
ThirdPart ==
    IF IsJjInfo(info)
    THEN (IF Display.show_name /\ info.bookmarks # <<>>
          THEN format_segment(bookmarks_text(info, config), GREEN, Display.show_color)
          ELSE <<>>)
    ELSE (IF Display.show_id
          THEN format_segment(<<"(">> \o info.head_short \o <<")">>, GREEN, Display.show_color)
          ELSE <<>>)
StatusChars == IF IsJjInfo(info) THEN jj_status(info) ELSE git_status(info)
StatusPart ==
    IF Display.show_status /\ StatusChars # <<>>
    THEN format_segment(<<"[">> \o StatusChars \o <<"]">>, RED, Display.show_color)
    ELSE <<>>

\* C11 (as claimed): every segment after the first is set off from the output before
\* it by exactly one space, and the output never ends with a space
C11_EverySegmentSpaced ==
    Rendered =>
        /\ Out = JoinSpaced(<<PrefixPart, SecondPart, ThirdPart, StatusPart>>)
        /\ (Out # <<>> => Last(Out) # " ")

\* C11 (amended): the second segment (change id, or git name) follows the prefix
\* segment directly; the parenthesised segment and the status segment are each set
\* off by exactly one space from a non-empty output before them and by none from an
\* empty one; the output ends with a space only when, without color, it is just
\* "on " and a symbol that is empty or ends with a space
C11_LaterSegmentsSpaced ==
    Rendered =>
        /\ Out = JoinSpaced(<<PrefixPart \o SecondPart, ThirdPart, StatusPart>>)
        /\ (Out # <<>> /\ Last(Out) = " ") =>
               (~Display.show_color /\ Out = <<"o", "n", " ">> \o Symbol)

C11_Witness ==
    /\ Rendered
    /\ IsJjInfo(info)
    /\ PrefixPart # <<>>
    /\ SecondPart = <<>>
    /\ ThirdPart # <<>>
    /\ StatusPart # <<>>
    /\ Symbol = <<>>

Uncolored(s) == SelectSeq(s, LAMBDA c : c \notin ColorCodes)

\* C12: with show_color off format_jj emits no color start or reset code, whatever
\* the other flags are, and the change id appears as plain text
C12_NoColorCodes ==
    (Rendered /\ IsJjInfo(info) /\ ~Display.show_color) =>
        /\ \A k \in 1..Len(Out) : Out[k] \notin ColorCodes
        /\ Display.show_id => SecondPart = info.change_id

C12_Witness ==
    /\ Rendered
    /\ IsJjInfo(info)
    /\ ~Display.show_color
    /\ Display.show_prefix_color
    /\ Display.show_prefix /\ Display.show_id /\ Display.show_name /\ Display.show_status
    /\ info.change_id_prefix_len < Len(info.change_id)
    /\ info.bookmarks # <<>>
    /\ StatusChars # <<>>

\* ---------------------------------------------------------------- bookmark segment claims
\* the position of the first comma of s, or 0
FirstComma(s) ==
    LET at == {k \in 1..Len(s) : s[k] = ","}
    IN  IF at = {} THEN 0 ELSE SetMin(at)

\* the entries of a list joined with ", "
RECURSIVE SplitEntries(_)
SplitEntries(s) ==
    IF FirstComma(s) = 0 THEN <<s>>
    ELSE <<SubSeq(s, 1, FirstComma(s) - 1)>> \o SplitEntries(SubSeq(s, FirstComma(s) + 2, Len(s)))

\* the bookmark segment has been rendered
NamesRendered == Rendered /\ IsJjInfo(info) /\ Display.show_name /\ info.bookmarks # <<>>

\* what stands between the parentheses of the printed bookmark segment
FirstParen == SetMin({k \in 1..Len(Out) : Out[k] = "("})
LastParen == SetMin({k \in 1..Len(Out) : Out[k] = ")"})
Entries == SplitEntries(SubSeq(Out, FirstParen + 1, LastParen - 1))
IsMarker(e) == Len(e) >= 2 /\ e[1] = ELLIPSIS /\ e[2] = "+"

\* C13: with limit L > 0 and T > L bookmarks the segment lists the first L bookmarks
\* and then the marker of the T - L hidden ones; with T <= L or L = 0 it lists all T
\* bookmarks and no marker
C13_DisplayLimit ==
    NamesRendered =>
        LET T == Len(info.bookmarks)
            L == config.bookmarks_display_limit
        IN  IF L > 0 /\ T > L
            THEN /\ Len(Entries) = Min(T, L) + 1
                 /\ \A k \in 1..L : Entries[k] = bookmark_str(config, info.bookmarks[k])
                 /\ Entries[L + 1] = <<ELLIPSIS, "+">> \o ToDecimal(T - L)
            ELSE /\ Len(Entries) = T
                 /\ \A k \in 1..T : Entries[k] = bookmark_str(config, info.bookmarks[k])
                 /\ \A k \in 1..T : ~IsMarker(Entries[k])

C13_Witness ==
    /\ NamesRendered
    /\ config.bookmarks_display_limit = 2
    /\ Len(info.bookmarks) = 3
    /\ Len(Entries) = 3
    /\ IsMarker(Entries[3])

\* the entry of the k-th displayed bookmark without, and only, its "~N" suffix
Suffix(k) == <<"~">> \o ToDecimal(info.bookmarks[k][2])
Shown == IF config.bookmarks_display_limit = 0 THEN Len(info.bookmarks)
         ELSE Min(config.bookmarks_display_limit, Len(info.bookmarks))
EndsWith(s, t) == Len(t) <= Len(s) /\ SubSeq(s, Len(s) - Len(t) + 1, Len(s)) = t

\* C14: a displayed bookmark at distance 0 carries no "~" at all; one at distance
\* d > 0 ends with "~d", and what precedes the suffix is the stripped and truncated
\* name in full, so the suffix is neither cut off nor counted against the width
C14_DistanceSuffix ==
    NamesRendered =>
        \A k \in 1..Shown :
            LET name == truncate(config, strip_prefix(config, info.bookmarks[k][1]))
            IN  IF info.bookmarks[k][2] = 0
                THEN Entries[k] = name /\ "~" \notin Range(Entries[k])
                ELSE /\ EndsWith(Entries[k], Suffix(k))
                     /\ SubSeq(Entries[k], 1, Len(Entries[k]) - Len(Suffix(k))) = name

C14_Witness ==
    /\ NamesRendered
    /\ Shown = 2
    /\ info.bookmarks[1][2] = 0
    /\ info.bookmarks[2][2] = MaxDepth
    /\ config.truncate_name = 2
    /\ Len(info.bookmarks[2][1]) > 2
    /\ Entries[2] = <<"m", ELLIPSIS, "~">> \o ToDecimal(MaxDepth)

\* the name without the first configured prefix, in configured order, that it starts with
FirstMatchStripped(name, prefixes) ==
    LET matching == {k \in 1..Len(prefixes) : starts_with(name, prefixes[k])}
    IN  IF matching = {} THEN name
        ELSE SubSeq(name, Len(prefixes[SetMin(matching)]) + 1, Len(name))

\* a name longer than the non-zero width w, cut to its first n characters and an ellipsis
CutTo(s, w, n) == IF w # 0 /\ Len(s) > w THEN SubSeq(s, 1, n) \o <<ELLIPSIS>> ELSE s

\* the k-th displayed entry without its distance suffix
NamePart(k) ==
    IF info.bookmarks[k][2] = 0 THEN Entries[k]
    ELSE SubSeq(Entries[k], 1, Len(Entries[k]) - Len(Suffix(k)))

\* C15 (as claimed): the first matching prefix is stripped, then a stripped name longer
\* than the non-zero width becomes its first `width` characters and an ellipsis
C15_StripThenCutToWidth ==
    NamesRendered =>
        \A k \in 1..Shown :
            NamePart(k) = CutTo(FirstMatchStripped(info.bookmarks[k][1],
                                                   config.strip_bookmark_prefix),
                                config.truncate_name, config.truncate_name)

\* C15 (amended): the first matching prefix is stripped, then a stripped name longer
\* than the non-zero width becomes its first `width - 1` characters and an ellipsis,
\* `width` characters in all; width 0 leaves it uncut
C15_StripThenCutWithinWidth ==
    NamesRendered =>
        \A k \in 1..Shown :
            /\ NamePart(k) = CutTo(FirstMatchStripped(info.bookmarks[k][1],
                                                      config.strip_bookmark_prefix),
                                   config.truncate_name, config.truncate_name - 1)
            /\ config.truncate_name # 0 => Len(NamePart(k)) <= config.truncate_name

C15_Witness ==
    /\ NamesRendered
    /\ info.bookmarks[1][1] = MAIN
    /\ config.strip_bookmark_prefix = <<<<"m">>, <<"m", "a">>>>
    /\ config.truncate_name = 2
    /\ NamePart(1) = <<"a", ELLIPSIS>>

\* ---------------------------------------------------------------- status and identity claims
IndexOf(s, c) ==
    LET at == {k \in 1..Len(s) : s[k] = c}
    IN  IF at = {} THEN 0 ELSE SetMin(at)

\* what stands between the square brackets of the printed string
Bracketed ==
    IF IndexOf(Out, "[") = 0 THEN <<>>
    ELSE SubSeq(Out, IndexOf(Out, "[") + 1, IndexOf(Out, "]") - 1)

\* the status characters in their fixed order, those whose condition holds
Selected ==
    SelectSeq(<<"!", DIVERGENT, "?", AHEAD>>,
              LAMBDA c : \/ c = "!" /\ info.conflict
                         \/ c = DIVERGENT /\ info.divergent
                         \/ c = "?" /\ info.empty_desc
                         \/ c = AHEAD /\ info.has_remote /\ ~info.is_synced)

\* C16: the bracketed status string of format_jj is the subsequence of the four
\* status characters, in the order conflict, divergence, empty description, needs
\* push, that the snapshot's booleans select; the needs-push arrow appears iff
\* has_remote and not is_synced
C16_StatusOrder ==
    (Rendered /\ IsJjInfo(info) /\ Display.show_status) =>
        /\ Bracketed = Selected
        /\ (IndexOf(Out, "[") # 0) <=> (Selected # <<>>)
        /\ (AHEAD \in Range(Out)) <=> (info.has_remote /\ ~info.is_synced)

C16_Witness ==
    /\ Rendered
    /\ IsJjInfo(info)
    /\ Display.show_status
    /\ info.conflict /\ info.divergent /\ info.empty_desc
    /\ info.has_remote /\ ~info.is_synced
    /\ Bracketed = <<"!", DIVERGENT, "?", AHEAD>>

\* position p of the string holds c
At(s, p, c) == p <= Len(s) /\ s[p] = c
\* the string ends before position p, or a separating space stands there
EndsAt(s, p) == p > Len(s) \/ s[p] = " "
\* the number of visible characters printed before the change id
BeforeId == IF Display.show_prefix THEN 3 + Len(Symbol) ELSE 0

\* C17: with show_id, show_color and show_prefix_color the printed change id is its
\* first min(prefix_len, length) characters between the accent color and a reset,
\* then, only if any character remains, the remainder between the dim color and a
\* reset; without prefix coloring it is one unit, in the single accent color or plain.
\* Without the color codes the change id always reads unchanged
C17_PrefixSplit ==
    (Rendered /\ IsJjInfo(info) /\ Display.show_id) =>
        LET id == info.change_id
            len == Len(id)
            n == Min(info.change_id_prefix_len, len)
            m == IndexOf(Out, BRIGHT_MAGENTA)
            u == IndexOf(Out, PURPLE)
        IN  /\ IF Display.show_color /\ Display.show_prefix_color
               THEN /\ m # 0 /\ u = 0
                    /\ SubSeq(Out, m + 1, m + n) = SubSeq(id, 1, n)
                    /\ At(Out, m + n + 1, RESET)
                    /\ IF n < len
                       THEN /\ At(Out, m + n + 2, BRIGHT_BLACK)
                            /\ SubSeq(Out, m + n + 3, m + len + 2) = SubSeq(id, n + 1, len)
                            /\ At(Out, m + len + 3, RESET)
                            /\ EndsAt(Out, m + len + 4)
                       ELSE /\ BRIGHT_BLACK \notin Range(Out)
                            /\ EndsAt(Out, m + n + 2)
               ELSE /\ m = 0 /\ BRIGHT_BLACK \notin Range(Out)
                    /\ IF Display.show_color
                       THEN /\ u # 0
                            /\ SubSeq(Out, u + 1, u + len) = id
                            /\ At(Out, u + len + 1, RESET)
                            /\ EndsAt(Out, u + len + 2)
                       ELSE u = 0
            /\ SubSeq(Uncolored(Out), BeforeId + 1, BeforeId + len) = id

C17_Witness ==
    /\ Rendered
    /\ IsJjInfo(info)
    /\ Display.show_id /\ Display.show_color /\ Display.show_prefix_color
    /\ info.change_id # <<>>
    /\ info.change_id_prefix_len > Len(info.change_id)
    /\ BRIGHT_MAGENTA \in Range(Out)
    /\ BRIGHT_BLACK \notin Range(Out)

\* the string holds the two characters a, b next to each other
Adjacent(s, a, b) == \E k \in 1..(Len(s) - 1) : s[k] = a /\ s[k + 1] = b

\* C18: format_jj returns a string for every snapshot and Config in which "on " and
\* the symbol stand iff show_prefix, the change id iff show_id, a parenthesised
\* segment iff show_name and the bookmark list is not empty, a bracketed segment iff
\* show_status and a status condition holds; "()" and "[]" never occur, the segments
\* stand in the order prefix, change id, bookmarks, status, and with the four flags
\* off the string is empty
C18_FlagGated ==
    (Rendered /\ IsJjInfo(info)) =>
        LET U == Uncolored(Out)
            id == info.change_id
            paren == IndexOf(U, "(")
            bracket == IndexOf(U, "[")
        IN  /\ (Len(U) >= 3 /\ SubSeq(U, 1, 3) = <<"o", "n", " ">>) <=> Display.show_prefix
            /\ Display.show_prefix => SubSeq(U, 4, 3 + Len(Symbol)) = Symbol
            /\ Display.show_id => SubSeq(U, BeforeId + 1, BeforeId + Len(id)) = id
            /\ ~Display.show_id =>
                   /\ Len(U) = BeforeId \/ U[BeforeId + 1] \in {" ", "(", "["}
                   /\ Range(Out) \cap {BRIGHT_MAGENTA, BRIGHT_BLACK, PURPLE} = {}
            /\ (paren # 0) <=> (Display.show_name /\ info.bookmarks # <<>>)
            /\ (bracket # 0) <=> (Display.show_status /\ Selected # <<>>)
            /\ ~Adjacent(U, "(", ")")
            /\ ~Adjacent(U, "[", "]")
            /\ paren # 0 => paren > BeforeId + (IF Display.show_id THEN Len(id) ELSE 0)
            /\ (paren # 0 /\ bracket # 0) => IndexOf(U, ")") < bracket
            /\ bracket # 0 => bracket > BeforeId + (IF Display.show_id THEN Len(id) ELSE 0)
            /\ (~Display.show_prefix /\ ~Display.show_id /\ ~Display.show_name
                    /\ ~Display.show_status) => Out = <<>>

\* ---------------------------------------------------------------- search claims
\* C19: the ancestor search terminates: once the loop is entered the work queue
\* eventually becomes empty, on every commit graph and for every max_depth
C19_SearchTerminates == Searching ~> (queue = <<>>)

\* a search that took every kind of step and emptied its queue
C19_Witness ==
    /\ pc = "assemble"
    /\ queue = <<>>
    /\ max_depth = MaxDepth
    /\ Cardinality(visited) = MaxCommits - 1
    /\ Len(parents[WC]) >= 2
    /\ Len(processed) < Len(parents[WC]) + Cardinality(expanded)

\* the commits exactly d parent hops from the working-copy commit
RECURSIVE Hops(_)
Hops(d) ==
    IF d = 0 THEN {WC}
    ELSE UNION {Range(parents[c]) : c \in Hops(d - 1)}

WithinHops(d) == UNION {Hops(k) : k \in 1..d}

\* a queue entry whose commit is already visited is dropped, and nothing else happens
DropsVisited ==
    (pc = "bfs" /\ queue # <<>> /\ Head(queue)[1] \in visited) =>
        /\ queue' = Tail(queue)
        /\ UNCHANGED <<visited, bookmarks_with_distances, bookmark_reads, commit_loads,
                       processed, expanded>>

\* C20: within one search no commit is processed twice, the processed commits lie
\* within max_depth parent hops of the working-copy commit, and an entry whose
\* commit is already visited is dropped without a bookmark read, a commit load or
\* a push
C20_VisitedOnce ==
    /\ [](/\ \A j, k \in 1..Len(processed) : j # k => processed[j][1] # processed[k][1]
          /\ {processed[k][1] : k \in 1..Len(processed)} \subseteq WithinHops(max_depth))
    /\ [][DropsVisited]_vars

\* commit 3 was enqueued twice, as a parent of the working-copy commit and as the
\* parent of commit 2, and processed once
C20_Witness ==
    /\ pc = "assemble"
    /\ max_depth = MaxDepth
    /\ {2, 3} \subseteq Range(parents[WC])
    /\ 3 \in Range(parents[2])
    /\ <<2, 1>> \in expanded
    /\ processed = <<<<2, 1>>, <<3, 1>>>>

\* ---------------------------------------------------------------- C21
\* a remote bookmark is trunk: main, master or trunk on origin or upstream
TrunkRef(r) ==
    /\ r.remote = "origin" \/ r.remote = "upstream"
    /\ r.name = MAIN \/ r.name = <<"m", "a", "s", "t", "e", "r">>
          \/ r.name = <<"t", "r", "u", "n", "k">>

\* the view holds a local bookmark of this name
HasLocal(n) == n \in DOMAIN view.local /\ view.local[n] # {}

\* a remote bookmark that counts: not on "git", and trunk or untracked
Counts(r) == r.remote # "git" /\ (TrunkRef(r) \/ ~HasLocal(r.name))

\* the commits the view makes immutable heads
ExpectedHeads ==
    {c \in Commits :
        \/ \E r \in view.remote : Counts(r) /\ r.target = {c}
        \/ \E t \in DOMAIN view.tags : view.tags[t] = {c}}

\* find_immutable_heads has returned into find_ancestor_bookmarks
HeadsFound == pc = "bfs"

\* C21: find_immutable_heads returns exactly the normal targets of the remote
\* bookmarks that are not on the "git" remote and are trunk or untracked, together
\* with the normal local target of every tag; a remote bookmark on "git", or a
\* tracked remote bookmark that is not trunk, adds nothing
C21_ImmutableHeads ==
    HeadsFound =>
        /\ immutable_heads = ExpectedHeads
        /\ \A c \in immutable_heads :
              \/ \E t \in DOMAIN view.tags : view.tags[t] = {c}
              \/ \E r \in view.remote :
                    /\ r.target = {c}
                    /\ r.remote # "git"
                    /\ ~(HasLocal(r.name) /\ ~TrunkRef(r))

\* a "git" ref and a counting ref with different normal targets, of which only
\* the second is an immutable head, beside a conflicted tag
C21_Witness ==
    /\ HeadsFound
    /\ \E g \in view.remote, r \in view.remote :
         /\ g.remote = "git" /\ ~HasLocal(g.name) /\ Cardinality(g.target) = 1
         /\ Counts(r) /\ Cardinality(r.target) = 1
         /\ immutable_heads = r.target
         /\ g.target # r.target
    /\ \E t \in DOMAIN view.tags : Cardinality(view.tags[t]) = 2

\* a tracked remote bookmark under a name that differs from main only in case
\* adds nothing, while an untracked one does
C21_WitnessCase ==
    /\ HeadsFound
    /\ \E a \in view.remote, b \in view.remote :
         /\ a.name = CAP_MAIN /\ a.remote = "origin" /\ HasLocal(CAP_MAIN)
         /\ a.target = {2}
         /\ b.remote = "upstream" /\ b.name = MAIN /\ HasLocal(MAIN) /\ b.target = {3}
    /\ immutable_heads = {3}

\* ---------------------------------------------------------------- C22
FullId == wc_commit.change_id
ShownId == info.change_id
SplitAt == info.change_id_prefix_len

\* the length the unique-prefix lookup asks for: its result, or id_length when
\* it yields nothing
Wanted == IF index.prefix = <<>> THEN config.id_length ELSE index.prefix[1]

\* C22: in every JjInfo of collect, change_id_prefix_len <= length(change_id) <=
\* id_length; the displayed id is the canonical id cut to the smaller of id_length
\* and its full length, and the prefix length is the lookup's result (id_length
\* when the lookup yields nothing) capped at the displayed length, so the
\* renderer splits the id at an index inside it
C22_PrefixWithinId ==
    Collected =>
        /\ SplitAt <= Len(ShownId)
        /\ Len(ShownId) <= config.id_length
        /\ Len(ShownId) <= Len(FullId)
        /\ Len(ShownId) = config.id_length \/ Len(ShownId) = Len(FullId)
        /\ \A k \in 1..Len(ShownId) : ShownId[k] = FullId[k]
        /\ SplitAt <= Wanted
        /\ SplitAt = Wanted \/ SplitAt = Len(ShownId)
        /\ SubSeq(ShownId, 1, SplitAt) \o SubSeq(ShownId, SplitAt + 1, Len(ShownId)) = ShownId

\* the lookup yields nothing and id_length exceeds the full id: the fallback is
\* capped at the displayed length
C22_Witness ==
    /\ Collected
    /\ index.prefix = <<>>
    /\ config.id_length > Len(FullId)
    /\ ShownId = FullId
    /\ SplitAt = Len(ShownId)
    /\ SplitAt < config.id_length

\* the unique prefix is longer than the displayed id, which is cut short
C22_WitnessCut ==
    /\ Collected
    /\ index.prefix # <<>>
    /\ Len(ShownId) < Len(FullId)
    /\ Wanted > Len(ShownId)
    /\ SplitAt = Len(ShownId)
    /\ SplitAt > 0

====
